---- MODULE Spec2Model ----
(***************************************************************************)
(* A model of src/agents/mcp.py: the JSON-Schema sanitizer, the content    *)
(* normalizer, the tool wrapper factory and the registry / aggregator      *)
(* lifecycle helpers.                                                       *)
(*                                                                         *)
(* Python values are modelled as follows.                                   *)
(*   - a str is a TLA+ string; "\n".join and f-strings are \o;              *)
(*   - a JSON value is a record [k, v, items]: k = "str" (a scalar, v its   *)
(*     text), k = "list" (items its elements), k = "dict" (items its        *)
(*     <<key, value>> pairs in insertion order, keys distinct);             *)
(*   - an object probed with hasattr/getattr is a record holding, for each  *)
(*     probed attribute, a has* flag and the attribute's value.             *)
(***************************************************************************)
EXTENDS Integers, Sequences, FiniteSets, TLC

VARIABLES
    schema,       \* sanitizer: the input document
    out,          \* sanitizer: sanitize(schema)
    out2,         \* sanitizer: sanitize(sanitize(schema))
    phase,        \* sanitizer: "input", "once", "twice"
    content,      \* normalizer: the argument of mcp_content_to_text
    text,         \* normalizer: what the call produced, once it has run
    initialized,  \* tools: server_aggregator.initialized
    listing,      \* tools: tools_result.tools, what list_tools() returned
    bound,        \* tools: the FunctionTools mcp_list_tools built
    listRaised,   \* tools: mcp_list_tools raised "not initialized"
    inv,          \* tools: the invocations of on_invoke_tool
    ctx,          \* lifecycle: run_context.context's registry attributes
    loads,        \* lifecycle: registries loaded so far
    ensured,      \* lifecycle: the last call of ensure_mcp_server_registry_in_context
    agg           \* lifecycle: the call of initialize_mcp_aggregator

sanVars == <<schema, out, out2, phase>>

conVars == <<content, text>>

toolVars == <<initialized, listing, bound, listRaised, inv>>

lifeVars == <<ctx, loads, ensured, agg>>

vars == <<schema, out, out2, phase, content, text, initialized, listing, bound,
          listRaised, inv, ctx, loads, ensured, agg>>

(***************************************************************************)
(* JSON values                                                              *)
(***************************************************************************)
Str(s) == [k |-> "str", v |-> s, items |-> <<>>]

List(xs) == [k |-> "list", v |-> "", items |-> xs]

Dict(es) == [k |-> "dict", v |-> "", items |-> es]

\* isinstance(x, dict) / isinstance(x, list)
IsDict(x) == x.k = "dict"

IsList(x) == x.k = "list"

\* list(d.keys()): the keys in insertion order
Keys(d) == [i \in 1..Len(d.items) |-> d.items[i][1]]

\* key in d
HasKey(d, key) == \E i \in 1..Len(d.items) : d.items[i][1] = key

\* d[key]
Get(d, key) == d.items[CHOOSE i \in 1..Len(d.items) : d.items[i][1] = key][2]

\* d[key] = val: an existing key keeps its position, a new key goes last
SetItem(d, key, val) ==
    IF HasKey(d, key)
    THEN Dict([i \in 1..Len(d.items) |->
                 IF d.items[i][1] = key THEN <<key, val>> ELSE d.items[i]])
    ELSE Dict(Append(d.items, <<key, val>>))

\* Python's == on JSON values: lists compare in order, dicts by key
RECURSIVE PyEq(_, _)
PyEq(a, b) ==
    IF a.k # b.k THEN FALSE
    ELSE IF a.k = "str" THEN a.v = b.v
    ELSE IF a.k = "list"
         THEN /\ Len(a.items) = Len(b.items)
              /\ \A i \in 1..Len(a.items) : PyEq(a.items[i], b.items[i])
    ELSE /\ Len(a.items) = Len(b.items)
         /\ \A i \in 1..Len(a.items) :
               /\ HasKey(b, a.items[i][1])
               /\ PyEq(a.items[i][2], Get(b, a.items[i][1]))

(***************************************************************************)
(* sanitize_json_schema_for_openai                                          *)
(***************************************************************************)
UNSUPPORTED_SCHEMA_PROPERTIES ==
    {"minimum", "minLength", "maxLength", "pattern", "format", "minItems",
     "maxItems", "uniqueItems", "minProperties", "maxProperties", "multipleOf",
     "exclusiveMinimum", "exclusiveMaximum", "$schema", "examples", "default"}

RECURSIVE sanitize_json_schema_for_openai(_)

\* a bug: list elements are never sanitized
SanitizeListItemVerbatim(item) == item

\* one element of the list comprehension
SanitizeListItem(item) ==
    IF IsDict(item) THEN sanitize_json_schema_for_openai(item) ELSE item

\* the value stored under a kept key
SanitizeValue(value) ==
    IF IsDict(value) THEN sanitize_json_schema_for_openai(value)
    ELSE IF IsList(value)
         THEN List([i \in 1..Len(value.items) |-> SanitizeListItem(value.items[i])])
    ELSE value

\* the for loop over schema.items(), from entry i on, accumulating result
RECURSIVE SanitizeLoop(_, _, _)
SanitizeLoop(sch, i, result) ==
    IF i > Len(sch.items) THEN result
    ELSE LET key == sch.items[i][1]
             value == sch.items[i][2]
         IN IF key \in UNSUPPORTED_SCHEMA_PROPERTIES
            THEN SanitizeLoop(sch, i + 1, result)
            ELSE SanitizeLoop(sch, i + 1, SetItem(result, key, SanitizeValue(value)))

\* a bug: the names are taken from the input's properties
PropertyNamesOfInput(sch, result) == Keys(Get(sch, "properties"))

\* property_names = list(result.get("properties", {}).keys())
PropertyNames(sch, result) == Keys(Get(result, "properties"))

\* the "properties/required" special handling
FixRequired(sch, result) ==
    IF /\ HasKey(result, "type")
       /\ Get(result, "type").k = "str"
       /\ Get(result, "type").v = "object"
       /\ HasKey(result, "properties")
    THEN LET property_names == PropertyNames(sch, result)
         IN IF Len(property_names) > 0
            THEN SetItem(result, "required",
                         List([i \in 1..Len(property_names) |-> Str(property_names[i])]))
            ELSE result
    ELSE result

sanitize_json_schema_for_openai(sch) ==
    IF ~IsDict(sch) THEN sch
    ELSE FixRequired(sch, SanitizeLoop(sch, 1, Dict(<<>>)))

(***************************************************************************)
(* The documents the sanitizer is applied to: every document built from a   *)
(* leaf by at most MaxDepth wrappings.                                      *)
(***************************************************************************)
MaxDepth == 2

Leaves ==
    { Str("x"),
      Dict(<< <<"type", Str("string")>> >>),
      Dict(<< <<"type", Str("string")>>, <<"minLength", Str("1")>> >>),
      Dict(<< <<"type", Str("object")>>, <<"properties", Dict(<<>>)>>,
              <<"required", List(<<Str("a")>>)>> >>) }

Leaf == Dict(<< <<"type", Str("string")>>, <<"format", Str("date")>> >>)

\* required lists; <<"-">> stands for "no required key"
NoRequired == <<"-">>

WithRequired(es, names) ==
    IF names = NoRequired THEN es
    ELSE Append(es, <<"required", List([i \in 1..Len(names) |-> Str(names[i])])>>)

Wrap(s) ==
    { Dict(<< <<"items", s>> >>),
      Dict(<< <<"type", Str("string")>>, <<"default", s>> >>),
      Dict(<< <<"anyOf", List(<<s, Str("x")>>)>> >>),
      Dict(<< <<"enum", List(<<List(<<s>>)>>)>> >>) }
    \cup
    { Dict(WithRequired(<< <<"type", Str(t)>>, <<"properties", Dict(<< <<n, s>> >>)>> >>, r)) :
        t \in {"object", "string"}, n \in {"a", "pattern"}, r \in {NoRequired, <<"z">>} }
    \cup
    { Dict(<< <<"required", List(<<Str(p[2]), Str(p[1])>>)>>,
              <<"properties", Dict(<< <<p[1], s>>, <<p[2], Leaf>> >>)>>,
              <<"type", Str("object")>> >>) :
        p \in {<<"a", "b">>, <<"format", "a">>, <<"b", "default">>} }
    \cup
    { Dict(<< <<"type", Str("object")>>,
              <<"properties", Dict(<< <<p[1], s>>, <<p[2], Leaf>> >>)>> >>) :
        p \in {<<"b", "a">>, <<"a", "format">>} }

RECURSIVE Schemas(_)
Schemas(d) ==
    IF d = 0 THEN Leaves
    ELSE LET S == Schemas(d - 1) IN S \cup UNION { Wrap(s) : s \in S }

(***************************************************************************)
(* mcp_content_to_text                                                      *)
(*                                                                         *)
(* A content block is probed with hasattr/getattr only, so it is a record   *)
(* of the probed attributes: type, text, data, mimeType, resource (whose    *)
(* probed attributes are text, blob, mimeType), and repr, its str().        *)
(* textIsStr tells whether the text attribute holds a str.                  *)
(***************************************************************************)
NoResource == [hasText |-> FALSE, text |-> "", hasBlob |-> FALSE,
               hasMime |-> FALSE, mimeType |-> ""]

Block(ty, hasText, txt, hasData, hasMime, mime, hasResource, res, repr) ==
    [hasType |-> ty # "-", type |-> ty, hasText |-> hasText, text |-> txt,
     textIsStr |-> TRUE, hasData |-> hasData, hasMime |-> hasMime,
     mimeType |-> mime, hasResource |-> hasResource, resource |-> res,
     repr |-> repr]

TextBlock(txt) == Block("text", TRUE, txt, FALSE, FALSE, "", FALSE, NoResource, "TextContent")

ImageBlock(hasMime, mime) ==
    Block("image", FALSE, "", TRUE, hasMime, mime, FALSE, NoResource, "ImageContent")

ResourceBlock(res) == Block("resource", FALSE, "", FALSE, FALSE, "", TRUE, res, "EmbeddedResource")

OtherBlock(ty, repr) == Block(ty, FALSE, "", FALSE, FALSE, "", FALSE, NoResource, repr)

\* a text block whose text attribute is not a str (None)
BadTextBlock == [TextBlock("") EXCEPT !.textIsStr = FALSE]

\* what a call produces: a returned value, or a raised exception
Return(value) == [raised |-> FALSE, exc |-> "", value |-> value]

Raise(exc, msg) == [raised |-> TRUE, exc |-> exc, value |-> msg]

NotRun == [raised |-> FALSE, exc |-> "-", value |-> ""]

\* getattr(x, 'mimeType', 'unknown type')
MimeOf(x) == IF x.hasMime THEN x.mimeType ELSE "unknown type"

\* the tests of the if / elif chain, the same in both branches
IsTextItem(item) == item.hasType /\ item.type = "text" /\ item.hasText

IsImageItem(item) == item.hasType /\ item.type = "image" /\ item.hasData

\* a part appended to text_parts: a value and whether it is a str
Part(value, isStr) == [value |-> value, isStr |-> isStr]

\* a bug: an unknown item is skipped
ListItemPartsNoFallback(item) ==
    IF IsTextItem(item) THEN <<Part(item.text, item.textIsStr)>>
    ELSE IF IsImageItem(item) THEN <<Part("[Image: " \o MimeOf(item) \o "]", TRUE)>>
    ELSE IF item.hasResource
         THEN IF item.resource.hasText THEN <<Part(item.resource.text, TRUE)>>
              ELSE IF item.resource.hasBlob
                   THEN <<Part("[Resource: " \o MimeOf(item.resource) \o "]", TRUE)>>
              ELSE <<>>
    ELSE <<>>

\* the body of "for item in content": what it appends to text_parts
ListItemParts(item) ==
    IF IsTextItem(item) THEN <<Part(item.text, item.textIsStr)>>
    ELSE IF IsImageItem(item) THEN <<Part("[Image: " \o MimeOf(item) \o "]", TRUE)>>
    ELSE IF item.hasResource
         THEN IF item.resource.hasText THEN <<Part(item.resource.text, TRUE)>>
              ELSE IF item.resource.hasBlob
                   THEN <<Part("[Resource: " \o MimeOf(item.resource) \o "]", TRUE)>>
              ELSE <<>>
    ELSE <<Part(item.repr, TRUE)>>

\* text_parts after the loop has run over items i..Len(items)
RECURSIVE TextParts(_, _, _)
TextParts(items, i, text_parts) ==
    IF i > Len(items) THEN text_parts
    ELSE TextParts(items, i + 1, text_parts \o ListItemParts(items[i]))

\* "\n".join(parts) for parts that are all str
RECURSIVE Join(_)
Join(parts) ==
    IF Len(parts) = 0 THEN ""
    ELSE IF Len(parts) = 1 THEN parts[1]
    ELSE parts[1] \o "\n" \o Join(Tail(parts))

\* the list branch
ContentListToText(items) ==
    LET text_parts == TextParts(items, 1, <<>>)
    IN IF Len(text_parts) > 0
       THEN IF \E i \in 1..Len(text_parts) : ~text_parts[i].isStr
            THEN Raise("TypeError", "sequence item: expected str instance, NoneType found")
            ELSE Return(Join([i \in 1..Len(text_parts) |-> text_parts[i].value]))
       ELSE Return("")

\* the single-item branch
SingleContentToText(item) ==
    IF IsTextItem(item) THEN Return(item.text)
    ELSE IF IsImageItem(item) THEN Return("[Image: " \o MimeOf(item) \o "]")
    ELSE IF item.hasResource /\ item.resource.hasText THEN Return(item.resource.text)
    ELSE IF item.hasResource /\ item.resource.hasBlob
         THEN Return("[Resource: " \o MimeOf(item.resource) \o "]")
    ELSE Return(item.repr)

\* content is [isList, items]: a list of blocks, or one block (items[1])
ContentList(items) == [isList |-> TRUE, items |-> items]

ContentItem(item) == [isList |-> FALSE, items |-> <<item>>]

NoContent == ContentList(<<>>)

mcp_content_to_text(c) ==
    IF c.isList THEN ContentListToText(c.items) ELSE SingleContentToText(c.items[1])

(***************************************************************************)
(* The contents the normalizer is applied to: one block, or a list of at    *)
(* most MaxLen blocks                                                       *)
(***************************************************************************)
MaxLen == 3

Blocks ==
    { TextBlock("a"), TextBlock(""), TextBlock("b"),
      ImageBlock(TRUE, "image/png"), ImageBlock(FALSE, ""),
      ResourceBlock([NoResource EXCEPT !.hasText = TRUE, !.text = "r"]),
      ResourceBlock([NoResource EXCEPT !.hasBlob = TRUE, !.hasMime = TRUE,
                                       !.mimeType = "application/pdf"]),
      ResourceBlock([NoResource EXCEPT !.hasBlob = TRUE]),
      ResourceBlock(NoResource),
      OtherBlock("text", "TextLike"),
      OtherBlock("-", "") }

BlockLists == UNION { [1..n -> Blocks] : n \in 0..MaxLen }

Contents == { ContentItem(b) : b \in Blocks } \cup { ContentList(l) : l \in BlockLists }

(***************************************************************************)
(* mcp_tool_to_function_tool: the wrapper factory                           *)
(*                                                                         *)
(* An exception is named by its class; ExceptionClasses are the classes     *)
(* that derive from Exception, the others derive from BaseException only   *)
(* (asyncio.CancelledError since Python 3.8, KeyboardInterrupt).            *)
(***************************************************************************)
ExceptionClasses ==
    {"RuntimeError", "TypeError", "AttributeError", "JSONDecodeError",
     "ConnectionError", "TimeoutError"}

BaseExceptionOnlyClasses == {"CancelledError", "KeyboardInterrupt"}

\* isinstance(e, Exception)
IsException(exc) == exc \in ExceptionClasses

\* a bug: the handler catches RuntimeError only
CaughtOnlyRuntimeError(exc) == exc = "RuntimeError"

\* a bug: the handler is a bare "except:" and catches BaseException too
CaughtAll(exc) == TRUE

\* "except Exception as e" of invoke_tool
CaughtByInvokeTool(exc) == IsException(exc)

\* json.loads on the argument strings the tool is invoked with
JsonLoads(arguments_json) ==
    CASE arguments_json = "{}" -> Return(Dict(<<>>))
      [] arguments_json = "{\"url\": \"u\"}" -> Return(Dict(<< <<"url", Str("u")>> >>))
      [] arguments_json = "{\"ctx\": \"c\"}" -> Return(Dict(<< <<"ctx", Str("c")>> >>))
      [] arguments_json = "[\"u\"]" -> Return(List(<<Str("u")>>))
      [] OTHER -> Raise("JSONDecodeError", "Expecting value: line 1 column 1 (char 0)")

\* current_wrapper_fn(run_context, **args): binding the keyword arguments
BindKwargs(args) ==
    IF ~IsDict(args)
    THEN Raise("TypeError", "argument after ** must be a mapping")
    ELSE IF HasKey(args, "ctx")
         THEN Raise("TypeError", "got multiple values for argument 'ctx'")
    ELSE Return(args)

AgentName == "agent"

\* a bug: the wrapper does not look at the aggregator's state
NeverUninitialized(aggregator_initialized) == FALSE

\* not server_aggregator or server_aggregator.initialized is False
AggregatorNotInitialized(aggregator_initialized) == aggregator_initialized = FALSE

\* a result of call_tool, probed with getattr / hasattr
CallToolResult(isError, hasContent, c) ==
    [isError |-> isError, hasContent |-> hasContent, content |-> c,
     repr |-> "CallToolResult"]

\* wrapper_fn after "await call_tool" has returned result
WrapperAfterCall(current_tool_name, result) ==
    IF result.isError
    THEN LET error_message ==
                 IF result.hasContent THEN mcp_content_to_text(result.content)
                 ELSE Return("Unknown error")
         IN IF error_message.raised THEN error_message
            ELSE Raise("RuntimeError",
                       "Error calling MCP tool '" \o current_tool_name \o "': "
                           \o error_message.value)
    ELSE IF result.hasContent THEN mcp_content_to_text(result.content)
    ELSE Return(result.repr)

\* invoke_tool's try / except around an outcome of its body
AtClosureBoundary(outcome) ==
    IF outcome.raised /\ CaughtByInvokeTool(outcome.exc)
    THEN Return("Error (" \o outcome.exc \o "): " \o outcome.value)
    ELSE outcome

\* invoke_tool up to the await of call_tool: a finished outcome, or the
\* call_tool request it suspends on
InvokeUntilCall(current_tool_name, aggregator_initialized, arguments_json) ==
    LET args == JsonLoads(arguments_json)
        kwargs == IF args.raised THEN args ELSE BindKwargs(args.value)
    IN IF kwargs.raised
       THEN [calls |-> FALSE, outcome |-> AtClosureBoundary(kwargs), thrown |-> kwargs]
       ELSE IF AggregatorNotInitialized(aggregator_initialized)
            THEN LET e == Raise("RuntimeError",
                                "MCP aggregator not initialized for agent " \o AgentName)
                 IN [calls |-> FALSE, outcome |-> AtClosureBoundary(e), thrown |-> e]
       ELSE [calls |-> TRUE, name |-> current_tool_name, arguments |-> kwargs.value]

\* a tool descriptor of the listing
MCPTool(name, description, hasSchema, inputSchema) ==
    [name |-> name, description |-> description, hasInputSchema |-> hasSchema,
     inputSchema |-> inputSchema]

\* a bug: the closures share the loop variable and see the last tool
CapturedLastToolName(tools, i) == tools[Len(tools)].name

\* create_wrapper(mcp_tool.name, ...): the name the closure of tool i holds
CapturedToolName(tools, i) == tools[i].name

DefaultParamsSchema ==
    Dict(<< <<"type", Str("object")>>, <<"properties", Dict(<<>>)>>,
            <<"required", List(<<>>)>> >>)

\* the FunctionTool built for tool i of the listing
mcp_tool_to_function_tool(tools, i) ==
    LET mcp_tool == tools[i]
        tool_desc == IF mcp_tool.description # "" THEN mcp_tool.description
                     ELSE "MCP tool: " \o mcp_tool.name
        params_schema == IF mcp_tool.hasInputSchema THEN mcp_tool.inputSchema
                         ELSE DefaultParamsSchema
    IN [name |-> mcp_tool.name,
        description |-> tool_desc,
        params_json_schema |->
            sanitize_json_schema_for_openai(
                SetItem(params_schema, "additionalProperties", Str("false"))),
        current_tool_name |-> CapturedToolName(tools, i)]

(***************************************************************************)
(* The inputs of the tools: the listings of the aggregator, the argument    *)
(* strings, and what call_tool produces                                     *)
(***************************************************************************)
MaxInv == 2

FetchTool ==
    MCPTool("fetch", "Fetch a URL", TRUE,
            Dict(<< <<"type", Str("object")>>,
                    <<"properties",
                      Dict(<< <<"url", Dict(<< <<"type", Str("string")>>,
                                               <<"format", Str("uri")>> >>)>> >>)>> >>))

ReadTool == MCPTool("read_file", "", FALSE, Dict(<<>>))

\* what list_tools() can return
Listings == { <<FetchTool, ReadTool>> }

ArgumentStrings == {"{}", "{\"url\": \"u\"}", "{\"ctx\": \"c\"}", "[\"u\"]", "{url"}

NoResult == CallToolResult(FALSE, FALSE, NoContent)

CallToolResults ==
    { CallToolResult(FALSE, TRUE, ContentList(<<TextBlock("a")>>)),
      CallToolResult(FALSE, TRUE, ContentList(<<TextBlock("b"), ImageBlock(FALSE, "")>>)),
      CallToolResult(FALSE, TRUE, ContentList(<<BadTextBlock>>)),
      CallToolResult(FALSE, FALSE, NoContent),
      CallToolResult(TRUE, TRUE, ContentList(<<TextBlock("boom")>>)),
      CallToolResult(TRUE, TRUE, ContentList(<<>>)),
      CallToolResult(TRUE, FALSE, NoContent) }

CallToolFailures == {"ConnectionError", "TimeoutError"}

NoCall == [made |-> FALSE, name |-> "", arguments |-> Dict(<<>>)]

NotAwaited == [how |-> "-", result |-> NoResult]

IdleInvocation ==
    [pc |-> "idle", tool |-> 0, arguments_json |-> "", initializedAtStart |-> FALSE,
     call |-> NoCall, awaited |-> NotAwaited, thrown |-> NotRun, outcome |-> NotRun]

(***************************************************************************)
(* The registry in the run context, and the aggregator's initialization     *)
(*                                                                         *)
(* run_context.context is probed with getattr, so it is a function from     *)
(* the attribute names to their values; a registry is None, the registry    *)
(* the caller put there itself, or the n-th registry loaded.                *)
(***************************************************************************)
None == [kind |-> "None", n |-> 0]

OwnRegistry == [kind |-> "own", n |-> 0]

Loaded(n) == [kind |-> "loaded", n |-> n]

\* bool(x) of a registry or None
Truthy(x) == x # None

NoContext == [a \in {"server_registry", "mcp_server_registry"} |-> None]

\* getattr(run_context.context, 'server_registry', None)
AttributeRead == "server_registry"

\* run_context.context.mcp_server_registry = server_registry
AttributeWritten == "mcp_server_registry"

\* the record of a call of ensure_mcp_server_registry_in_context
Ensured(force, attachedBefore, loaded, raised, ret) ==
    [called |-> TRUE, force |-> force, attachedBefore |-> attachedBefore,
     loaded |-> loaded, raised |-> raised, ret |-> ret]

NotEnsured ==
    [called |-> FALSE, force |-> FALSE, attachedBefore |-> None,
     loaded |-> FALSE, raised |-> FALSE, ret |-> None]

\* create_mcp_aggregator: the registry the aggregator gets, or the error
create_mcp_aggregator(context, servers, server_registry) ==
    IF Len(servers) = 0
    THEN Raise("RuntimeError", "No MCP servers specified. No MCP aggregator created.")
    ELSE IF Truthy(server_registry) THEN Return(server_registry)
    ELSE IF ~Truthy(context["mcp_server_registry"])
         THEN Raise("RuntimeError",
                    "No server registry found in run context. Either specify it or set in context.")
    ELSE Return(context["mcp_server_registry"])

\* a bug: the handler of initialize_mcp_aggregator tears nothing down
CaughtNothing(exc) == FALSE

\* "except Exception as e" of initialize_mcp_aggregator
CaughtByInitialize(exc) == IsException(exc)

NoAggregator ==
    [pc |-> "idle", registry |-> None, enter |-> "-", exit |-> "-", error |-> ""]

MaxLoads == 2

ServerLists == { <<>>, <<"fetch", "filesystem">> }

\* what __aenter__ and __aexit__ can raise: a failure, or the cancellation of
\* the task that awaits them
EnterFailures == {"ConnectionError", "CancelledError"}

ExitFailures == {"RuntimeError", "CancelledError"}

(***************************************************************************)
(* The state of each part before it runs                                    *)
(***************************************************************************)
SanitizerIdle ==
    /\ schema = Str("")
    /\ out = Str("")
    /\ out2 = Str("")
    /\ phase = "input"

NormalizerIdle ==
    /\ content = NoContent
    /\ text = NotRun

ToolsIdle ==
    /\ initialized = FALSE
    /\ listing = <<>>
    /\ bound = <<>>
    /\ listRaised = FALSE
    /\ inv = <<>>

LifecycleIdle ==
    /\ ctx = NoContext
    /\ loads = 0
    /\ ensured = NotEnsured
    /\ agg = NoAggregator

(***************************************************************************)
(* The sanitizer applied once, then applied to its own output               *)
(***************************************************************************)
InitSanitize ==
    /\ schema \in Schemas(MaxDepth)
    /\ out = Str("")
    /\ out2 = Str("")
    /\ phase = "input"
    /\ NormalizerIdle
    /\ ToolsIdle
    /\ LifecycleIdle

Sanitize ==
    /\ phase = "input"
    /\ out' = sanitize_json_schema_for_openai(schema)
    /\ phase' = "once"
    /\ UNCHANGED <<schema, out2, conVars, toolVars, lifeVars>>

SanitizeAgain ==
    /\ phase = "once"
    /\ out2' = sanitize_json_schema_for_openai(out)
    /\ phase' = "twice"
    /\ UNCHANGED <<schema, out, conVars, toolVars, lifeVars>>

NextSanitize == Sanitize \/ SanitizeAgain

SpecSanitize == InitSanitize /\ [][NextSanitize]_vars

(***************************************************************************)
(* The normalizer applied to a content                                      *)
(***************************************************************************)
InitContent ==
    /\ content \in Contents
    /\ text = NotRun
    /\ SanitizerIdle
    /\ ToolsIdle
    /\ LifecycleIdle

Normalize ==
    /\ text = NotRun
    /\ text' = mcp_content_to_text(content)
    /\ UNCHANGED <<content, sanVars, toolVars, lifeVars>>

NextContent == Normalize

SpecContent == InitContent /\ [][NextContent]_vars

(***************************************************************************)
(* Bound tools over one shared aggregator: mcp_list_tools builds them, and  *)
(* up to MaxInv invocations of on_invoke_tool run interleaved. asyncio runs *)
(* a coroutine without interruption between two awaits, so an invocation    *)
(* is two steps: up to "await call_tool", and from its resumption on.       *)
(***************************************************************************)
InitTools ==
    /\ initialized \in BOOLEAN
    /\ listing = <<>>
    /\ bound = <<>>
    /\ listRaised = FALSE
    /\ inv = [i \in 1..MaxInv |-> IdleInvocation]
    /\ SanitizerIdle
    /\ NormalizerIdle
    /\ LifecycleIdle

\* the aggregator's __aenter__ / __aexit__, run by its owner
AggregatorEnter ==
    /\ ~initialized
    /\ initialized' = TRUE
    /\ UNCHANGED <<listing, bound, listRaised, inv, sanVars, conVars, lifeVars>>

AggregatorExit ==
    /\ initialized
    /\ initialized' = FALSE
    /\ UNCHANGED <<listing, bound, listRaised, inv, sanVars, conVars, lifeVars>>

\* mcp_list_tools(server_aggregator)
ListTools ==
    /\ bound = <<>>
    /\ IF AggregatorNotInitialized(initialized)
       THEN /\ listRaised' = TRUE
            /\ UNCHANGED <<listing, bound>>
       ELSE \E tools \in Listings :
               /\ listing' = tools
               /\ bound' = [i \in 1..Len(tools) |-> mcp_tool_to_function_tool(tools, i)]
               /\ listRaised' = FALSE
    /\ UNCHANGED <<initialized, inv, sanVars, conVars, lifeVars>>

\* on_invoke_tool(run_context, arguments_json) of bound tool t, up to its
\* return or to its await of call_tool
Invoke(i, t, arguments_json) ==
    /\ inv[i].pc = "idle"
    /\ t \in 1..Len(bound)
    /\ LET r == InvokeUntilCall(bound[t].current_tool_name, initialized, arguments_json)
           started == [inv[i] EXCEPT !.tool = t, !.arguments_json = arguments_json,
                                     !.initializedAtStart = initialized]
       IN inv' = [inv EXCEPT ![i] =
                     IF r.calls
                     THEN [started EXCEPT !.pc = "awaiting",
                                          !.call = [made |-> TRUE, name |-> r.name,
                                                    arguments |-> r.arguments]]
                     ELSE [started EXCEPT !.pc = IF r.outcome.raised THEN "raised"
                                                 ELSE "returned",
                                          !.thrown = r.thrown,
                                          !.outcome = r.outcome]]
    /\ UNCHANGED <<initialized, listing, bound, listRaised, sanVars, conVars, lifeVars>>

\* the invocation resumed with what its await produced
Resume(i, awaited, body) ==
    LET outcome == AtClosureBoundary(body)
    IN inv' = [inv EXCEPT ![i] =
                  [inv[i] EXCEPT !.pc = IF outcome.raised THEN "raised" ELSE "returned",
                                 !.awaited = awaited,
                                 !.thrown = IF body.raised THEN body ELSE NotRun,
                                 !.outcome = outcome]]

\* call_tool returns result to the invocation that awaits it
CallToolReturns(i, result) ==
    /\ inv[i].pc = "awaiting"
    /\ Resume(i, [how |-> "returned", result |-> result],
              WrapperAfterCall(bound[inv[i].tool].current_tool_name, result))
    /\ UNCHANGED <<initialized, listing, bound, listRaised, sanVars, conVars, lifeVars>>

\* call_tool raises: a connection failure, or a timeout of the remote call
CallToolRaises(i, exc) ==
    /\ inv[i].pc = "awaiting"
    /\ Resume(i, [how |-> exc, result |-> NoResult], Raise(exc, "call_tool failed"))
    /\ UNCHANGED <<initialized, listing, bound, listRaised, sanVars, conVars, lifeVars>>

\* the task running the invocation is cancelled while suspended in call_tool:
\* the event loop throws CancelledError into the coroutine at its await
Cancel(i) ==
    /\ inv[i].pc = "awaiting"
    /\ Resume(i, [how |-> "cancelled", result |-> NoResult], Raise("CancelledError", ""))
    /\ UNCHANGED <<initialized, listing, bound, listRaised, sanVars, conVars, lifeVars>>

NextTools ==
    \/ AggregatorEnter
    \/ AggregatorExit
    \/ ListTools
    \/ \E i \in 1..MaxInv, t \in 1..Len(bound), a \in ArgumentStrings : Invoke(i, t, a)
    \/ \E i \in 1..MaxInv, r \in CallToolResults : CallToolReturns(i, r)
    \/ \E i \in 1..MaxInv, e \in CallToolFailures : CallToolRaises(i, e)
    \/ \E i \in 1..MaxInv : Cancel(i)

Spec == InitTools /\ [][NextTools]_vars

(***************************************************************************)
(* The registry is ensured in the context, and an aggregator is created and *)
(* initialized over it. initialize_mcp_aggregator suspends at its awaits of *)
(* __aenter__ and __aexit__.                                                *)
(***************************************************************************)
InitLifecycle ==
    /\ ctx \in { NoContext, [NoContext EXCEPT !["server_registry"] = OwnRegistry] }
    /\ loads = 0
    /\ ensured = NotEnsured
    /\ agg = NoAggregator
    /\ SanitizerIdle
    /\ NormalizerIdle
    /\ ToolsIdle

\* ensure_mcp_server_registry_in_context(run_context, force); loadOk tells
\* whether load_mcp_server_registry returns or raises
Ensure(force, loadOk) ==
    /\ LET server_registry == ctx[AttributeRead]
           attached == ctx["mcp_server_registry"]
       IN IF ~force /\ Truthy(server_registry)
          THEN /\ ensured' = Ensured(force, attached, FALSE, FALSE, server_registry)
               /\ UNCHANGED <<ctx, loads>>
          ELSE /\ loads < MaxLoads
               /\ IF loadOk
                  THEN /\ loads' = loads + 1
                       /\ ctx' = [ctx EXCEPT ![AttributeWritten] = Loaded(loads + 1)]
                       /\ ensured' = Ensured(force, attached, TRUE, FALSE, None)
                  ELSE /\ ensured' = Ensured(force, attached, FALSE, TRUE, None)
                       /\ UNCHANGED <<ctx, loads>>
    /\ UNCHANGED <<agg, sanVars, conVars, toolVars>>

\* initialize_mcp_aggregator up to its await of __aenter__
Initialize(servers, server_registry) ==
    /\ agg.pc = "idle"
    /\ LET created == create_mcp_aggregator(ctx, servers, server_registry)
       IN agg' = IF created.raised
                 THEN [agg EXCEPT !.pc = "raised", !.error = created.exc]
                 ELSE [agg EXCEPT !.pc = "entering", !.registry = created.value]
    /\ UNCHANGED <<ctx, loads, ensured, sanVars, conVars, toolVars>>

\* __aenter__ returns: the aggregator is returned
EnterReturns ==
    /\ agg.pc = "entering"
    /\ agg' = [agg EXCEPT !.pc = "returned", !.enter = "ok"]
    /\ UNCHANGED <<ctx, loads, ensured, sanVars, conVars, toolVars>>

\* __aenter__ raises: the handler awaits __aexit__, or the exception goes up
EnterRaises(exc) ==
    /\ agg.pc = "entering"
    /\ agg' = IF CaughtByInitialize(exc)
              THEN [agg EXCEPT !.pc = "exiting", !.enter = exc]
              ELSE [agg EXCEPT !.pc = "raised", !.enter = exc, !.error = exc]
    /\ UNCHANGED <<ctx, loads, ensured, sanVars, conVars, toolVars>>

\* __aexit__ returns: the bare raise re-raises the failure of __aenter__
ExitReturns ==
    /\ agg.pc = "exiting"
    /\ agg' = [agg EXCEPT !.pc = "raised", !.exit = "ok", !.error = agg.enter]
    /\ UNCHANGED <<ctx, loads, ensured, sanVars, conVars, toolVars>>

\* __aexit__ raises inside the handler: its exception is the one that goes up
ExitRaises(exc) ==
    /\ agg.pc = "exiting"
    /\ agg' = [agg EXCEPT !.pc = "raised", !.exit = exc, !.error = exc]
    /\ UNCHANGED <<ctx, loads, ensured, sanVars, conVars, toolVars>>

NextLifecycle ==
    \/ \E force \in BOOLEAN, loadOk \in BOOLEAN : Ensure(force, loadOk)
    \/ \E servers \in ServerLists, r \in {None, OwnRegistry} : Initialize(servers, r)
    \/ EnterReturns
    \/ \E exc \in EnterFailures : EnterRaises(exc)
    \/ ExitReturns
    \/ \E exc \in ExitFailures : ExitRaises(exc)

SpecLifecycle == InitLifecycle /\ [][NextLifecycle]_vars

(***************************************************************************)
(* Claims about the sanitizer                                               *)
(***************************************************************************)
\* an unsupported key occurs in x at any depth, through documents and sequences
RECURSIVE OccursAnywhere(_)
OccursAnywhere(x) ==
    IF x.k = "dict"
    THEN \E i \in 1..Len(x.items) :
            \/ x.items[i][1] \in UNSUPPORTED_SCHEMA_PROPERTIES
            \/ OccursAnywhere(x.items[i][2])
    ELSE IF x.k = "list"
         THEN \E i \in 1..Len(x.items) : OccursAnywhere(x.items[i])
    ELSE FALSE

\* an unsupported key occurs in a document reached through documents and through
\* sequences that are the direct value of a key (not a sequence inside a sequence)
RECURSIVE OccursInDocuments(_)
OccursInDocuments(x) ==
    IF x.k # "dict" THEN FALSE
    ELSE \E i \in 1..Len(x.items) :
            LET value == x.items[i][2]
            IN \/ x.items[i][1] \in UNSUPPORTED_SCHEMA_PROPERTIES
               \/ IsDict(value) /\ OccursInDocuments(value)
               \/ /\ IsList(value)
                  /\ \E j \in 1..Len(value.items) :
                        IsDict(value.items[j]) /\ OccursInDocuments(value.items[j])

\* C1 as stated: the output holds no unsupported key at any nesting depth,
\* through nested documents or through sequences.
C1_NoUnsupportedKeyAnywhere == phase # "input" => ~OccursAnywhere(out)

\* C1 amended: the output holds no unsupported key in any document reached
\* through nested documents and through sequences that are the direct value of
\* a key; a sequence that is an element of a sequence is copied verbatim.
C1_NoUnsupportedKeyInDocuments == phase # "input" => ~OccursInDocuments(out)

\* C1 witness: an unsupported key sat in a document inside a sequence and is gone
C1_Witness ==
    /\ phase = "once"
    /\ IsDict(schema)
    /\ HasKey(schema, "anyOf")
    /\ OccursInDocuments(Get(schema, "anyOf").items[1])
    /\ ~OccursAnywhere(out)

\* the input is an object schema with a non-empty properties map
IsObjectWithProperties(x) ==
    /\ IsDict(x)
    /\ HasKey(x, "type")
    /\ Get(x, "type").k = "str"
    /\ Get(x, "type").v = "object"
    /\ HasKey(x, "properties")
    /\ IsDict(Get(x, "properties"))
    /\ Len(Get(x, "properties").items) > 0

NamesList(names) == List([i \in 1..Len(names) |-> Str(names[i])])

\* C2 as stated: for an object schema with a non-empty properties map, the
\* output's required is the list of all the input's property names, in
\* insertion order, whatever the input's required was.
C2_RequiredIsAllInputProperties ==
    (phase # "input" /\ IsObjectWithProperties(schema)) =>
        /\ HasKey(out, "required")
        /\ PyEq(Get(out, "required"), NamesList(Keys(Get(schema, "properties"))))

\* C3: sanitize(sanitize(s)) == sanitize(s).
C3_Idempotent == phase = "twice" => PyEq(out2, out)

\* C3 witness: the first application changed the document and set required
C3_Witness ==
    /\ phase = "twice"
    /\ ~PyEq(out, schema)
    /\ IsDict(out)
    /\ HasKey(out, "required")
    /\ OccursAnywhere(schema)

(***************************************************************************)
(* Claims about the normalizer                                              *)
(***************************************************************************)
\* the non-empty strings of a sequence of strings, in order
RECURSIVE NonEmpty(_)
NonEmpty(ss) ==
    IF Len(ss) = 0 THEN <<>>
    ELSE IF ss[1] = "" THEN NonEmpty(Tail(ss))
    ELSE <<ss[1]>> \o NonEmpty(Tail(ss))

\* each element normalized on its own by the single-block branch
EachAlone(items) == [i \in 1..Len(items) |-> SingleContentToText(items[i]).value]

\* a resource that carries neither inline text nor a blob
IsBareResource(item) ==
    /\ ~IsTextItem(item)
    /\ ~IsImageItem(item)
    /\ item.hasResource
    /\ ~item.resource.hasText
    /\ ~item.resource.hasBlob

\* the elements that are not bare resources, in order
RECURSIVE WithoutBareResources(_)
WithoutBareResources(items) ==
    IF Len(items) = 0 THEN <<>>
    ELSE IF IsBareResource(items[1]) THEN WithoutBareResources(Tail(items))
    ELSE <<items[1]>> \o WithoutBareResources(Tail(items))

\* C4 as stated: the result for a sequence is the newline-join of the non-empty
\* strings obtained by normalizing each element on its own by the single-block
\* rules.
C4_JoinOfNonEmptySingles ==
    (text # NotRun /\ content.isList) =>
        /\ ~text.raised
        /\ text.value = Join(NonEmpty(EachAlone(content.items)))

\* C4 amended: the result for a sequence is the newline-join of the strings
\* obtained by normalizing, by the single-block rules, each element that is not
\* a resource without text and without blob; empty strings are joined too.
C4_JoinOfSingles ==
    (text # NotRun /\ content.isList) =>
        /\ ~text.raised
        /\ text.value = Join(EachAlone(WithoutBareResources(content.items)))

\* C4 witness: a sequence with an image, an unknown block and a resource
C4_Witness ==
    /\ text # NotRun
    /\ content.isList
    /\ Len(content.items) = 3
    /\ \E i \in 1..3 : IsImageItem(content.items[i])
    /\ \E i \in 1..3 : content.items[i].hasResource
    /\ \E i \in 1..3 : content.items[i].repr = "TextLike"
    /\ text.value # ""

(***************************************************************************)
(* Claims about the bound tools                                             *)
(***************************************************************************)
Invocations == DOMAIN inv

\* the invocation has left on_invoke_tool
Ended(i) == inv[i].pc \in {"returned", "raised"}

\* the string the handler of invoke_tool builds for an exception
ErrorString(e) == "Error (" \o e.exc \o "): " \o e.value

\* C5 as stated: any exception raised while parsing the arguments, calling the
\* remote tool or normalizing the result is caught at the closure boundary: the
\* invocation returns "Error (<kind>): <message>" and no exception propagates.
C5_EveryExceptionBecomesString ==
    \A i \in Invocations :
        /\ inv[i].pc # "raised"
        /\ inv[i].thrown.raised => inv[i].outcome = Return(ErrorString(inv[i].thrown))

\* C5 amended: any exception that derives from Exception is caught and the
\* invocation returns "Error (<kind>): <message>"; what propagates out of
\* on_invoke_tool derives from BaseException only (CancelledError).
C5_EveryExceptionSubclassBecomesString ==
    \A i \in Invocations :
        /\ (inv[i].thrown.raised /\ IsException(inv[i].thrown.exc)) =>
               /\ inv[i].pc = "returned"
               /\ inv[i].outcome = Return(ErrorString(inv[i].thrown))
        /\ inv[i].pc = "raised" =>
               /\ inv[i].thrown.raised
               /\ inv[i].outcome = inv[i].thrown
               /\ inv[i].outcome.exc \in BaseExceptionOnlyClasses

\* C5 witness: the three places have each raised, and each invocation returned
C5_Witness ==
    /\ \E i \in Invocations :
          /\ inv[i].thrown.exc = "JSONDecodeError"
          /\ inv[i].pc = "returned"
    /\ \E i \in Invocations :
          /\ inv[i].awaited.how = "returned"
          /\ inv[i].thrown.exc = "TypeError"
          /\ inv[i].outcome.value =
                 "Error (TypeError): sequence item: expected str instance, NoneType found"

\* the arguments string parses and binds as keyword arguments
ArgumentsBind(arguments_json) ==
    /\ ~JsonLoads(arguments_json).raised
    /\ ~BindKwargs(JsonLoads(arguments_json).value).raised

NotInitializedError ==
    Raise("RuntimeError", "MCP aggregator not initialized for agent " \o AgentName)

\* C6 as stated: for any arguments string, an invocation made while the
\* aggregator reports initialized == false issues no call_tool request and
\* ends in the NotInitialized failure, the check coming before the parsing.
C6_NotInitializedWhateverTheArguments ==
    \A i \in Invocations :
        (inv[i].pc # "idle" /\ ~inv[i].initializedAtStart) =>
            /\ ~inv[i].call.made
            /\ inv[i].thrown = NotInitializedError

\* C6 amended: such an invocation issues no call_tool request; the arguments
\* are parsed and bound before the initialized check, so it ends in the
\* NotInitialized failure (returned as "Error (RuntimeError): ...") when the
\* arguments parse and bind, and in the parsing failure otherwise.
C6_NoCallWhenNotInitialized ==
    \A i \in Invocations :
        (inv[i].pc # "idle" /\ ~inv[i].initializedAtStart) =>
            /\ ~inv[i].call.made
            /\ inv[i].pc = "returned"
            /\ IF ArgumentsBind(inv[i].arguments_json)
               THEN /\ inv[i].thrown = NotInitializedError
                    /\ inv[i].outcome = Return(ErrorString(NotInitializedError))
               ELSE /\ inv[i].thrown.exc \in {"JSONDecodeError", "TypeError"}
                    /\ inv[i].outcome = Return(ErrorString(inv[i].thrown))

\* C6 witness: tools were listed, the aggregator was torn down, and a tool was
\* invoked with arguments that parse
C6_Witness ==
    \E i \in Invocations :
        /\ inv[i].pc = "returned"
        /\ ~inv[i].initializedAtStart
        /\ inv[i].arguments_json = "{\"url\": \"u\"}"
        /\ inv[i].thrown = NotInitializedError

\* C7: every invocation calls call_tool with the remote name of the tool it
\* was built from and with its own parsed arguments, and ends with the result
\* of its own call, in any interleaving.
C7_ClosureIsolation ==
    \A i \in Invocations :
        /\ inv[i].call.made =>
               /\ inv[i].call.name = listing[inv[i].tool].name
               /\ inv[i].call.name = bound[inv[i].tool].name
               /\ inv[i].call.arguments = JsonLoads(inv[i].arguments_json).value
        /\ (Ended(i) /\ inv[i].awaited.how = "returned") =>
               inv[i].outcome =
                   AtClosureBoundary(WrapperAfterCall(listing[inv[i].tool].name,
                                                      inv[i].awaited.result))

\* C7 witness: two invocations of two different tools were suspended together
\* and got different results, the first tool of the listing ending last
C7_Witness ==
    \E i, j \in Invocations :
        /\ inv[i].tool = 1
        /\ inv[j].tool = 2
        /\ inv[i].pc = "returned"
        /\ inv[j].pc = "returned"
        /\ inv[i].outcome.value = "a"
        /\ inv[j].outcome.value = "b\n[Image: unknown type]"
        /\ inv[i].call.arguments # inv[j].call.arguments

\* C9 as stated: a cancellation or a timeout while the invocation is suspended
\* in call_tool ends in the returned "Error (<kind>): <message>" string and
\* does not propagate out of on_invoke_tool.
C9_CancellationBecomesString ==
    \A i \in Invocations :
        inv[i].awaited.how \in {"cancelled", "TimeoutError"} =>
            /\ inv[i].pc = "returned"
            /\ inv[i].outcome = Return(ErrorString(inv[i].thrown))

\* C9 amended: a timeout that call_tool raises as TimeoutError ends in the
\* returned "Error (TimeoutError): <message>" string; a cancellation raises
\* CancelledError, which the handler does not catch: it propagates out of
\* on_invoke_tool.
C9_TimeoutBecomesStringCancellationPropagates ==
    \A i \in Invocations :
        /\ inv[i].awaited.how = "TimeoutError" =>
               /\ inv[i].pc = "returned"
               /\ inv[i].outcome = Return("Error (TimeoutError): " \o inv[i].thrown.value)
        /\ inv[i].awaited.how = "cancelled" =>
               /\ inv[i].pc = "raised"
               /\ inv[i].outcome.raised
               /\ inv[i].outcome.exc = "CancelledError"

\* C9 witness: one invocation timed out and another was cancelled
C9_Witness ==
    \E i, j \in Invocations :
        /\ inv[i].awaited.how = "TimeoutError"
        /\ inv[i].pc = "returned"
        /\ inv[j].awaited.how = "cancelled"
        /\ inv[j].pc = "raised"

\* call_tool returned a result flagged isError to invocation i
AwaitedErrorResult(i) ==
    /\ inv[i].awaited.how = "returned"
    /\ inv[i].awaited.result.isError

\* the result carries no content: the attribute is absent or is an empty list
NoContentPresent(result) ==
    \/ ~result.hasContent
    \/ (result.content.isList /\ result.content.items = <<>>)

\* the message of the remote tool error for tool `name` with text `message`
RemoteToolErrorMessage(name, message) ==
    "Error calling MCP tool '" \o name \o "': " \o message

\* C11 as stated: when call_tool returns a result flagged isError, the
\* invocation fails with the remote tool error whose message is the normalized
\* text of the result's content, or "Unknown error" when no content is present
\* (content absent or an empty list); the failure is what the invocation ends
\* in (the "Error (<kind>): <message>" string), never the content returned as a
\* success string.
C11_ErrorResultFailsWithContentOrUnknownError ==
    \A i \in Invocations :
        AwaitedErrorResult(i) =>
            LET result == inv[i].awaited.result
                name == listing[inv[i].tool].name
                message == IF NoContentPresent(result) THEN "Unknown error"
                           ELSE mcp_content_to_text(result.content).value
            IN /\ inv[i].thrown = Raise("RuntimeError", RemoteToolErrorMessage(name, message))
               /\ inv[i].pc = "returned"
               /\ inv[i].outcome = Return(ErrorString(inv[i].thrown))
               /\ result.hasContent => inv[i].outcome # mcp_content_to_text(result.content)

(***************************************************************************)
(* Claims about the lifecycle                                               *)
(***************************************************************************)
\* __aenter__ raised
EnterFailed == agg.enter \notin {"-", "ok"}

\* C8 as stated: whenever opening the connections fails, the teardown has
\* completed before the error reaches the caller and the error is the
\* initialization failure; no aggregator is returned then, and on success the
\* aggregator is returned without teardown.
C8_TeardownBeforeError ==
    /\ (agg.pc = "raised" /\ EnterFailed) =>
           /\ agg.exit = "ok"
           /\ agg.error = agg.enter
    /\ agg.pc = "returned" => (agg.enter = "ok" /\ agg.exit = "-")
    /\ EnterFailed => agg.pc # "returned"

\* C8 amended: when opening fails with an exception that derives from
\* Exception, __aexit__ has been awaited before the error reaches the caller:
\* if it returned, the error is the initialization failure, and if it raised,
\* the error is its own exception; a failure that derives from BaseException
\* only (cancellation) reaches the caller with no teardown; no aggregator is
\* returned on a failing path, and on success it is returned without teardown.
C8_TeardownAwaitedBeforeError ==
    /\ (agg.pc = "raised" /\ EnterFailed /\ IsException(agg.enter)) =>
           /\ agg.exit # "-"
           /\ agg.exit = "ok" => agg.error = agg.enter
           /\ agg.exit # "ok" => agg.error = agg.exit
    /\ (agg.pc = "raised" /\ EnterFailed /\ ~IsException(agg.enter)) =>
           /\ agg.exit = "-"
           /\ agg.error = agg.enter
    /\ agg.pc = "returned" => (agg.enter = "ok" /\ agg.exit = "-")
    /\ EnterFailed => agg.pc \in {"exiting", "raised"}

\* C8 witness: opening failed, the teardown ran, the failure reached the caller
C8_Witness ==
    /\ agg.pc = "raised"
    /\ agg.enter = "ConnectionError"
    /\ agg.exit = "ok"
    /\ agg.error = "ConnectionError"

\* C10 as stated: once a call has loaded the registry and attached it to the
\* context, a later call with force == false skips the reload and returns that
\* same registry.
C10_LoadedOnceUnlessForced ==
    (ensured.called /\ ~ensured.force /\ ensured.attachedBefore # None) =>
        /\ ~ensured.loaded
        /\ ~ensured.raised
        /\ ensured.ret = ensured.attachedBefore

====
